---- MODULE Spec2Model ----
(***************************************************************************)
(* A model of the Batcher of go-batcher (batcher.go): the dispatcher loop  *)
(* started by Start(), the producers calling Enqueue(), the goroutine that *)
(* processBatch() spawns per batch, and the callers of Pause(), Flush()    *)
(* and Stop().                                                             *)
(*                                                                         *)
(* Time is counted in quanta.  The engine's maxOperationTime is            *)
(* MaxOperationTime quanta; `sinceFlush' is time.Since(lastFlushWithRecords)*)
(* saturated just above it, and every batch goroutine counts its           *)
(* time.After() timer down in `left'.  The tickers' periods are unrelated  *)
(* to the quantum (they are configuration), so a ticker delivers whenever  *)
(* the dispatcher is ready to receive.                                     *)
(***************************************************************************)
EXTENDS Integers, Sequences, FiniteSets, TLC

(***************************************************************************)
(* Bounds of the model.                                                    *)
(***************************************************************************)
MaxOps == 2            \* Enqueue calls that pass the precondition checks
MaxBuffer == 2         \* the largest maxBufferSize given to NewBatcherWithBuffer
MaxPass == 4           \* the longest buffer a flush pass is given under SpecPass
MaxLifeOps == 1        \* the number of operations created under SpecLife
MaxRetryOps == 1       \* the number of operations created under SpecRetry
MaxFullOps == 2        \* the number of operations created under SpecFull
MaxBook == 2           \* the longest buffer the Batcher starts with under SpecBook
MaxAuditOps == 2       \* the number of operations created under SpecAudit
MaxCapacityOps == 3    \* the longest buffer of mixed costs under SpecCapacity
MaxCalls == 3          \* Flush() calls and flush ticks counted per flush pass under SpecCoalesce
MaxSlice == 3          \* the longest buffer a flush pass is given under SpecSlice

(***************************************************************************)
(* Program constants.                                                      *)
(***************************************************************************)
batcherPhaseUninitialized == 0
batcherPhaseStarted == 1
batcherPhasePaused == 2
batcherPhaseStopped == 3

FlushIntervalMs == 100     \* applyDefaults: 100 * time.Millisecond

(***************************************************************************)
(* Configuration and inputs.                                               *)
(***************************************************************************)
MaxOperationTime == 1      \* the engine's maxOperationTime, in quanta

Watchers == {"A", "B"}

\* IWatcher.MaxBatchSize(): 0 is unlimited
WatcherMaxBatchSize(w) == IF w = "A" THEN 2 ELSE 0

\* IWatcher.MaxOperationTime() in quanta: 0 is "use the engine's"
\* MaxAttempts() of each watcher (0: no limit)
WatcherMaxAttempts(w) == IF w = "A" THEN 2 ELSE 0

WatcherMaxOperationTime(w) == IF w = "A" THEN 0 ELSE 3

\* the operations a producer creates: NewOperation(watcher, cost, payload),
\* with or without AllowBatch()
OpKinds ==
    { [ watcher |-> "A", batchable |-> TRUE, cost |-> 1 ],
      [ watcher |-> "A", batchable |-> FALSE, cost |-> 2 ],
      [ watcher |-> "B", batchable |-> TRUE, cost |-> 2 ],
      [ watcher |-> "B", batchable |-> FALSE, cost |-> 1 ] }

\* the calls of Stop() a run may make
Stoppers == {"s1", "s2"}

\* the rate limiters a Batcher is built with: none, or one with this
\* Capacity() per second and this MaxCapacity()
NoRateLimiter == [attached |-> FALSE, capacity |-> 0, maxCapacity |-> 0]

RateLimiters ==
    { NoRateLimiter,
      [attached |-> TRUE, capacity |-> 0, maxCapacity |-> 1],
      [attached |-> TRUE, capacity |-> 10, maxCapacity |-> 10] }

Configs ==
    [ maxBufferSize : 1 .. MaxBuffer,
      ratelimiter : RateLimiters,
      errorOnFullBuffer : BOOLEAN,
      maxConcurrentBatches : {0, 1} ]

VARIABLES
    cfg,          \* the With...() configuration, fixed before Start()
    phase,        \* r.phase
    phaseMutex,   \* r.phaseMutex: "free" or the Stop() caller holding it
    stopClosed,   \* r.stop has been closed
    stopPc,       \* each Stop() call: "idle", "waiting" (in shutdown.Wait()), "returned"
    loop,         \* the dispatcher goroutine: "none", "select", "sleep", "resume", "exited"
    pause,        \* r.pause holds a record
    flush,        \* r.flush holds a record
    buffer,       \* r.buffer, head first
    target,       \* r.target
    inflight,     \* len(r.inflight)
    sinceFlush,   \* time.Since(r.lastFlushWithRecords), saturated
    tasks,        \* the goroutines of processBatch that have not finished
    producer,     \* the Enqueue() call in progress, if any
    nextId,       \* identity of the next operation created
    dispatched,   \* history: the batches handed to processBatch, in order
    windowCost,   \* history: cost dispatched since the flush ticker last delivered
    attempt,      \* op.Attempt() of every operation created, by identity
    record,       \* whether windowCost is kept (it is read under SpecWindow only)
    log           \* history: what the calls returned and the events emitted, when kept

vars == << cfg, phase, phaseMutex, stopClosed, stopPc, loop, pause, flush,
           buffer, target, inflight, sinceFlush, tasks, producer, nextId,
           dispatched, windowCost, attempt, record, log >>

(***************************************************************************)
(* Pure helpers.                                                           *)
(***************************************************************************)
RECURSIVE SumCost(_)
\* the total of op.Cost() over a slice of operations
SumCost(ops) == IF ops = << >> THEN 0 ELSE Head(ops).cost + SumCost(Tail(ops))

RECURSIVE Flatten(_)
\* the operations of a sequence of batches, in order
Flatten(bs) == IF bs = << >> THEN << >> ELSE Head(bs) \o Flatten(Tail(bs))

Range(f) == { f[i] : i \in DOMAIN f }

\* (a variant: the decrement or increment applied twice)
incTargetTwice(t, val) ==
    IF val < 0 /\ t >= -(2 * val) THEN t + 2 * val
    ELSE IF val < 0 THEN 0
    ELSE IF val > 0 THEN t + 2 * val
    ELSE t

\* incTarget(val) on target t; the counter is far from the uint32 range here
incTarget(t, val) ==
    IF val < 0 /\ t >= -val THEN t + val
    ELSE IF val < 0 THEN 0
    ELSE IF val > 0 THEN t + val
    ELSE t

\* confirmTargetIsZero(): the value it returns, and the target it leaves
targetIsZero(t) == ~(t > 0)

targetNotReset(t) == t

targetAfterConfirm(t) == 0

\* confirmInflightIsZero(): the value it returns; it leaves the channel empty
inflightIsZero(n) == n = 0

\* a mutation of tryReserveBatchSlot: the gate is never consulted
reserveAlways(max, n) == TRUE

\* tryReserveBatchSlot() on a channel holding n of max records
tryReserveBatchSlot(max, n) == max = 0 \/ n < max

\* (a variant: a reservation that leaves no record in the channel)
inflightNotReserved(max, n) == n

\* r.inflight <- struct{}{}: the channel's length after a successful reservation
inflightAfterReserve(max, n) == IF max = 0 THEN n ELSE n + 1

(***************************************************************************)
(* The capacity of one flush,                                              *)
(*     uint32(float64(Capacity()) / 1000.0 * float64(flushInterval ms)),   *)
(* is computed in float64: c / 1000 is rounded to 53 bits, the product     *)
(* with ms is rounded again, and the conversion truncates.  With           *)
(* 2^eq <= c/1000 < 2^(eq+1), the quotient is m / 2^(52-eq) for the        *)
(* integer m nearest to c * 2^(52-eq) / 1000, so that it is off by         *)
(* r / (1000 * 2^(52-eq)) with r = 1000 * m - c * 2^(52-eq), |r| < 500.    *)
(* When c * ms / 1000 is not an integer the errors are too small to move   *)
(* the truncation.  When it is an integer N (2^eN <= N < 2^(eN+1)) and     *)
(* r < 0, the product lies below N, and it is rounded back to N only if it *)
(* is no further from N than half the distance to the float64 below N.     *)
(***************************************************************************)
RECURSIVE Pow2(_)
Pow2(n) == IF n = 0 THEN 1 ELSE 2 * Pow2(n - 1)

RECURSIVE pow2mod1000(_)
pow2mod1000(n) == IF n = 0 THEN 1 ELSE (2 * pow2mod1000(n - 1)) % 1000

\* the binary exponent of a / b: the e with 2^e <= a / b < 2^(e + 1)
RECURSIVE exponentUp(_, _)
exponentUp(a, b) == IF 2 * b <= a THEN 1 + exponentUp(a, 2 * b) ELSE 0

RECURSIVE exponentDown(_, _)
exponentDown(a, b) == IF a >= b THEN 0 ELSE 1 + exponentDown(2 * a, b)

binaryExponent(a, b) == IF a >= b THEN exponentUp(a, b) ELSE - exponentDown(a, b)

\* float64(c) / 1000.0 * float64(ms), truncated
float64Capacity(c, ms) ==
    LET N == (c * ms) \div 1000
    IN  IF c = 0 \/ ms = 0 \/ (c * ms) % 1000 # 0 THEN N
        ELSE LET eq == binaryExponent(c, 1000)
                 t == ((c % 1000) * pow2mod1000(52 - eq)) % 1000
                 r == IF t < 500 THEN - t ELSE 1000 - t
                 eN == binaryExponent(N, 1)
                 halves == IF Pow2(eN) = N THEN 4 ELSE 2
             IN  IF - (r * ms * halves) > 1000 * Pow2(eN - eq)
                 THEN N - 1 ELSE N

\* the same for every Capacity() up to 1000 at the Batcher's flushInterval,
\* computed once
capacityPerFlush == [ c \in 0 .. 1000 |-> float64Capacity(c, FlushIntervalMs) ]

\* "if enforceCapacity { capacity += uint32(...) }"
flushCapacity(rl) ==
    IF ~rl.attached THEN 0
    ELSE IF rl.capacity \in DOMAIN capacityPerFlush THEN capacityPerFlush[rl.capacity]
    ELSE float64Capacity(rl.capacity, FlushIntervalMs)

\* the timeout a batch goroutine arms
effectiveMaxOperationTime(w) ==
    IF WatcherMaxOperationTime(w) > 0 THEN WatcherMaxOperationTime(w)
    ELSE MaxOperationTime

(***************************************************************************)
(* The buffer (IBuffer).  A traversal is a sequence and a cursor index.    *)
(***************************************************************************)
\* Remove(): drop the element under the cursor; the cursor then stands on
\* its successor
bufferRemove(buf, cur) ==
    [ i \in 1 .. (Len(buf) - 1) |-> IF i < cur THEN buf[i] ELSE buf[i + 1] ]

\* Skip(): the cursor moves on, nothing is dropped
bufferSkip(cur) == cur + 1

\* Top(): the cursor goes back to the head
bufferTop == 1

(***************************************************************************)
(* The loop of one flush pass (the for of case <-r.flush).  s holds the    *)
(* locals: buf and cur (the traversal), batches, consumed, the admission   *)
(* channel's length, and out, the batches given to processBatch inline.    *)
(***************************************************************************)
capacityExhaustedAtLimit(enforce, consumed, capacity) ==
    enforce /\ consumed >= capacity

\* if enforceCapacity && consumed > capacity { break }
capacityExhausted(enforce, consumed, capacity) == enforce /\ consumed > capacity

prependToBatch(batch, op) == << op >> \o batch

\* batch = append(batch, op)
appendToBatch(batch, op) == Append(batch, op)

batchKeptAfterInline(batch) == batch

\* batches[watcher] = nil once the full batch went to processBatch
batchAfterInline(batch) == << >>

\* a mutation of teardownEvents: the teardown emits nothing
teardownSilent == << >>

\* the events of the dispatcher's deferred teardown
teardownEvents == << "shutdown" >>

\* r.buffer.Clear()
bufferClear(buf) == << >>

\* a mutation of batchFull: a batch is cut one operation late
batchFullAbove(max, len) == max > 0 /\ len > max

\* "if max > 0 && len(batch) >= int(max)": the batch is dispatched inside the loop
batchFull(max, len) == max > 0 /\ len >= max

RECURSIVE flushLoop(_)
flushLoop(s) ==
    IF capacityExhausted(s.enforce, s.consumed, s.capacity) THEN s
    ELSE IF s.cur > Len(s.buf) THEN s
    ELSE
      LET op == s.buf[s.cur]
          w == op.watcher
          canReserve == tryReserveBatchSlot(s.max, s.inflight)
      IN  IF op.batchable
          THEN LET batch == s.batches[w]
               IN  IF batch = << >> /\ ~canReserve
                   THEN flushLoop([s EXCEPT !.cur = bufferSkip(@)])
                   ELSE
                     LET grown == appendToBatch(batch, op)
                         max == WatcherMaxBatchSize(w)
                         full == batchFull(max, Len(grown))
                     IN  flushLoop(
                           [s EXCEPT
                              !.inflight = IF batch = << >>
                                           THEN inflightAfterReserve(s.max, @)
                                           ELSE @,
                              !.consumed = @ + op.cost,
                              !.batches[w] = IF full THEN batchAfterInline(grown)
                                             ELSE grown,
                              !.out = IF full THEN Append(@, grown) ELSE @,
                              !.buf = bufferRemove(@, s.cur)])
          ELSE IF canReserve
               THEN flushLoop(
                      [s EXCEPT
                         !.inflight = inflightAfterReserve(s.max, @),
                         !.consumed = @ + op.cost,
                         !.out = Append(@, << op >>),
                         !.buf = bufferRemove(@, s.cur)])
               ELSE flushLoop([s EXCEPT !.cur = bufferSkip(@)])

\* the locals at the start of a pass
flushStart ==
    [ buf |-> buffer, cur |-> bufferTop,
      enforce |-> cfg.ratelimiter.attached,
      capacity |-> flushCapacity(cfg.ratelimiter),
      max |-> cfg.maxConcurrentBatches,
      batches |-> [ w \in Watchers |-> << >> ],
      consumed |-> 0, inflight |-> inflight, out |-> << >> ]

\* the orders in which "for watcher, batch := range batches" may visit the
\* non-empty residual batches (Go's map iteration order is unspecified)
residualOrders(batches) ==
    LET ws == { w \in Watchers : batches[w] # << >> }
    IN  { o \in [ 1 .. Cardinality(ws) -> ws ] :
            \A i, j \in DOMAIN o : i # j => o[i] # o[j] }

\* op.MakeAttempt()
makeAttempt(n) == n + 1

\* "for _, op := range batch { op.MakeAttempt() }", for each batch dispatched
RECURSIVE attemptsAfter(_, _)
attemptsAfter(att, ops) ==
    IF ops = << >> THEN att
    ELSE attemptsAfter([ att EXCEPT ![Head(ops).id] = makeAttempt(@) ], Tail(ops))

\* the goroutine processBatch starts for a batch, at its select with the
\* timer armed (MakeAttempt and the start of the handler touch nothing of
\* the Batcher)
newTask(batch, n) ==
    [ ops |-> batch, pc |-> "wait", n |-> n,
      left |-> effectiveMaxOperationTime(batch[1].watcher) ]

(***************************************************************************)
(* The history of returned errors and of events (r.emit), for a Batcher    *)
(* built WithEmitBatch() and WithEmitFlush().                              *)
(***************************************************************************)
NoLog == [ on |-> FALSE ]

EmptyLog ==
    [ on |-> TRUE,
      start |-> "none",      \* what the last Start() returned
      enq |-> "none",        \* what the last Enqueue() returned
      full |-> FALSE,        \* an Enqueue() returned BufferFullError
      twice |-> FALSE,       \* an operation was enqueued while it was in the buffer
      loops |-> 0,           \* dispatcher goroutines started
      paused |-> FALSE,      \* a Pause() took effect
      last |-> "none",       \* the event emitted last
      shutdowns |-> 0,       \* ShutdownEvents emitted
      late |-> FALSE ]       \* an event was emitted after a ShutdownEvent

\* r.emit of the events evs, one after the other
emit(l, evs) ==
    IF ~l.on \/ evs = << >> THEN l
    ELSE [ l EXCEPT !.last = evs[Len(evs)],
                    !.shutdowns = @ + Cardinality({ i \in DOMAIN evs : evs[i] = "shutdown" }),
                    !.late = @ \/ l.shutdowns > 0 ]

\* the history that also counts the flush requests: `calls' is the number
\* of Flush() calls and flush ticks since the last flush pass began (or
\* since construction), `served' that number at the last pass
CallLog == [ f \in DOMAIN EmptyLog \cup { "calls", "served" } |->
               IF f \in DOMAIN EmptyLog THEN EmptyLog[f] ELSE 0 ]

countsCalls(l) == l.on /\ "calls" \in DOMAIN l

\* a Flush() call or a flush tick has happened
noteCall(l) == IF countsCalls(l) THEN [ l EXCEPT !.calls = @ + 1 ] ELSE l

\* a flush pass begins
notePass(l) ==
    IF countsCalls(l) THEN [ l EXCEPT !.served = l.calls, !.calls = 0 ] ELSE l

(***************************************************************************)
(* The state after NewBatcherWithBuffer(n) and the With...() calls.        *)
(***************************************************************************)
NoOp == [ id |-> 0, cost |-> 0, batchable |-> FALSE, watcher |-> "A" ]

InitFields(configs, rec, callers) ==
    /\ cfg \in configs
    /\ record = rec
    /\ phase = batcherPhaseUninitialized
    /\ phaseMutex = "free"
    /\ stopClosed = FALSE
    /\ stopPc = [ s \in callers |-> "idle" ]
    /\ loop = "none"
    /\ pause = FALSE
    /\ flush = FALSE
    /\ buffer = << >>
    /\ target = 0
    /\ inflight = 0
    /\ sinceFlush = MaxOperationTime + 1     \* lastFlushWithRecords is the zero time
    /\ tasks = { }
    /\ producer = [ pc |-> "idle", op |-> NoOp ]
    /\ nextId = 1
    /\ dispatched = << >>
    /\ attempt = << >>
    /\ windowCost = 0

InitWith(configs, rec, callers) == InitFields(configs, rec, callers) /\ log = NoLog

InitLogged(configs, callers) == InitFields(configs, FALSE, callers) /\ log = EmptyLog

Init == InitWith(Configs, FALSE, Stoppers)

(***************************************************************************)
(* Enqueue(op), in two steps: the checks and incTarget, then               *)
(* r.buffer.Enqueue(op, r.errorOnFullBuffer).                              *)
(***************************************************************************)
\* the cost check of Enqueue
tooExpensive(rl, cost) == rl.attached /\ cost > rl.maxCapacity

\* a mutation of tooManyAttempts: one attempt more is let through
tooManyAttemptsAbove(max, att) == max > 0 /\ att > max

\* the attempts check of Enqueue
tooManyAttempts(max, att) == max > 0 /\ att >= max

\* a mutation of enqueueError: the cost is checked before the watcher
enqueueErrorCostFirst(rl, present, consumer, cost, max, att) ==
    IF ~present THEN "NoOperationError"
    ELSE IF tooExpensive(rl, cost) THEN "TooExpensiveError"
    ELSE IF ~consumer THEN "NoWatcherError"
    ELSE IF tooManyAttempts(max, att) THEN "TooManyAttemptsError"
    ELSE "nil"

\* the error Enqueue returns before it touches target or the buffer
enqueueError(rl, present, consumer, cost, max, att) ==
    IF ~present THEN "NoOperationError"
    ELSE IF ~consumer THEN "NoWatcherError"
    ELSE IF tooExpensive(rl, cost) THEN "TooExpensiveError"
    ELSE IF tooManyAttempts(max, att) THEN "TooManyAttemptsError"
    ELSE "nil"

\* the arguments of an Enqueue call with a new operation: nil, an operation
\* without watcher, or an operation of one of the kinds
FreshArgs ==
    { [ present |-> FALSE, consumer |-> FALSE, id |-> nextId, cost |-> 0,
        batchable |-> FALSE, watcher |-> "A" ] }
    \cup
    { [ present |-> TRUE, consumer |-> c, id |-> nextId, cost |-> k.cost,
        batchable |-> k.batchable, watcher |-> k.watcher ] :
      c \in BOOLEAN, k \in OpKinds }

\* op.Attempt() of the argument
attemptOf(a) == IF a.id \in DOMAIN attempt THEN attempt[a.id] ELSE 0

\* the number of times the operation of identity id is waiting to be dispatched
WaitingCount(id) ==
    Cardinality({ b \in DOMAIN buffer : buffer[b].id = id })
    + ( IF producer.pc = "insert" /\ producer.op.id = id THEN 1 ELSE 0 )

\* Enqueue(a) up to incTarget
enqueue(a) ==
    /\ producer.pc = "idle"
    /\ LET err == enqueueError(cfg.ratelimiter, a.present, a.consumer, a.cost,
                               WatcherMaxAttempts(a.watcher), attemptOf(a))
       IN  IF err = "nil"
           THEN /\ target' = incTarget(target, a.cost)
                /\ producer' = [ pc |-> "insert",
                                 op |-> [ id |-> a.id, cost |-> a.cost,
                                          batchable |-> a.batchable,
                                          watcher |-> a.watcher ] ]
                /\ nextId' = IF a.id = nextId THEN nextId + 1 ELSE nextId
                /\ attempt' = IF a.id = nextId THEN Append(attempt, 0) ELSE attempt
                /\ log' = IF log.on /\ WaitingCount(a.id) > 0
                          THEN [ log EXCEPT !.twice = TRUE ]
                          ELSE log
           ELSE /\ log' = IF log.on THEN [ log EXCEPT !.enq = err ] ELSE log
                /\ UNCHANGED << target, producer, nextId, attempt >>
    /\ UNCHANGED << cfg, phase, phaseMutex, stopClosed, stopPc, loop, pause,
                    flush, buffer, inflight, sinceFlush, tasks, dispatched,
                    windowCost, record >>

EnqueueCall ==
    /\ nextId <= MaxOps
    /\ \E a \in FreshArgs : enqueue(a)

\* Enqueue of an operation again, once a batch holding it was handed to
\* its watcher, by a caller that sees room in the buffer and gives up when
\* more batches were dispatched than watcher A allows attempts
EnqueueAgain ==
    \E j \in DOMAIN dispatched : \E i \in DOMAIN dispatched[j] :
      LET op == dispatched[j][i]
      IN  /\ Len(dispatched) <= WatcherMaxAttempts("A")
          /\ Len(buffer) < cfg.maxBufferSize
          /\ enqueue([ present |-> TRUE, consumer |-> TRUE, id |-> op.id,
                       cost |-> op.cost, batchable |-> op.batchable,
                       watcher |-> op.watcher ])

\* a mutation of targetAfterInsert: the increment is taken back when the
\* insertion fails
targetRolledBack(t, cost, inserted) == IF inserted THEN t ELSE incTarget(t, - cost)

\* "return r.buffer.Enqueue(op, r.errorOnFullBuffer)": whatever the buffer
\* returns, target is left as incTarget made it
targetAfterInsert(t, cost, inserted) == t

\* buffer.Enqueue: appends when there is room; on a full buffer it returns
\* BufferFullError when errorOnFull is set and blocks otherwise
EnqueueInsert ==
    /\ producer.pc = "insert"
    /\ IF Len(buffer) < cfg.maxBufferSize
       THEN /\ buffer' = Append(buffer, producer.op)
            /\ log' = IF log.on THEN [ log EXCEPT !.enq = "nil" ] ELSE log
       ELSE /\ cfg.errorOnFullBuffer
            /\ buffer' = buffer
            /\ log' = IF log.on
                      THEN [ log EXCEPT !.enq = "BufferFullError", !.full = TRUE ]
                      ELSE log
    /\ target' = targetAfterInsert(target, producer.op.cost,
                                   Len(buffer) < cfg.maxBufferSize)
    /\ producer' = [ pc |-> "idle", op |-> NoOp ]
    /\ UNCHANGED << cfg, phase, phaseMutex, stopClosed, stopPc, loop, pause,
                    flush, inflight, sinceFlush, tasks, nextId,
                    dispatched, windowCost, attempt, record >>

(***************************************************************************)
(* Start(), Pause(), Flush(), Stop().                                      *)
(***************************************************************************)
\* a mutation of startError: the phase is not looked at
startErrorBufferOnly(p, max) == IF max = 0 THEN "BufferNotAllocated" ELSE "nil"

\* what Start() returns in phase p with a buffer of capacity max
startError(p, max) ==
    IF p # batcherPhaseUninitialized THEN "BatcherImproperOrderError"
    ELSE IF max = 0 THEN "BufferNotAllocated"
    ELSE "nil"

Start ==
    /\ phaseMutex = "free"
    /\ LET err == startError(phase, cfg.maxBufferSize)
       IN  /\ IF err = "nil"
              THEN /\ loop' = "select"
                   /\ phase' = batcherPhaseStarted
              ELSE UNCHANGED << loop, phase >>
           /\ log' = IF log.on
                     THEN [ log EXCEPT !.start = err,
                                       !.loops = IF err = "nil" THEN @ + 1 ELSE @ ]
                     ELSE log
    /\ UNCHANGED << cfg, phaseMutex, stopClosed, stopPc, pause, flush, buffer,
                    target, inflight, sinceFlush, tasks, producer, nextId,
                    dispatched, windowCost, attempt, record >>

\* a mutation of canPause: Pause() in any phase
canPauseAlways(p) == TRUE

\* Pause() ignores the call unless the phase is Started
canPause(p) == p = batcherPhaseStarted

Pause ==
    /\ phaseMutex = "free"
    /\ IF canPause(phase)
       THEN /\ pause' = TRUE
            /\ phase' = batcherPhasePaused
            /\ log' = IF log.on THEN [ log EXCEPT !.paused = TRUE ] ELSE log
       ELSE UNCHANGED << pause, phase, log >>
    /\ UNCHANGED << cfg, phaseMutex, stopClosed, stopPc, loop, flush, buffer,
                    target, inflight, sinceFlush, tasks, producer, nextId,
                    dispatched, windowCost, attempt, record >>

\* "select { case r.flush <- struct{}{}: default: }" on the channel of one
\* record: the send is possible, or dropped, at once
flushSent(pending) == TRUE

\* (a variant: a second request takes the pending one back)
flushToggled(pending) == ~pending

\* the channel after it: it holds a record
flushAfterSend(pending) == TRUE

Flush ==
    /\ flushSent(flush)
    /\ flush' = flushAfterSend(flush)
    /\ log' = noteCall(log)
    /\ UNCHANGED << cfg, phase, phaseMutex, stopClosed, stopPc, loop, pause,
                    buffer, target, inflight, sinceFlush, tasks, producer,
                    nextId, dispatched, windowCost, attempt, record >>

\* Stop() up to shutdown.Wait(): it takes the mutex, returns at once when
\* already stopped, and else closes r.stop (when Start made it)
StopBegin(s) ==
    /\ stopPc[s] = "idle"
    /\ phaseMutex = "free"
    /\ IF phase = batcherPhaseStopped
       THEN /\ stopPc' = [ stopPc EXCEPT ![s] = "returned" ]
            /\ UNCHANGED << phaseMutex, stopClosed >>
       ELSE /\ stopPc' = [ stopPc EXCEPT ![s] = "waiting" ]
            /\ phaseMutex' = s
            /\ stopClosed' = (loop # "none")
    /\ UNCHANGED << cfg, phase, loop, pause, flush, buffer, target, inflight,
                    sinceFlush, tasks, producer, nextId, dispatched,
                    windowCost, attempt, record, log >>

\* shutdown.Wait() returns once the dispatcher has called shutdown.Done()
\* (or was never started); then the phase is updated and the mutex released
StopReturn(s) ==
    /\ stopPc[s] = "waiting"
    /\ loop \in { "none", "exited" }
    /\ phase' = batcherPhaseStopped
    /\ phaseMutex' = "free"
    /\ stopPc' = [ stopPc EXCEPT ![s] = "returned" ]
    /\ UNCHANGED << cfg, stopClosed, loop, pause, flush, buffer, target,
                    inflight, sinceFlush, tasks, producer, nextId, dispatched,
                    windowCost, attempt, record, log >>

(***************************************************************************)
(* The dispatcher goroutine: one action per case of its select.            *)
(***************************************************************************)
\* case <-r.stop, and the deferred teardown (buffer.Clear, shutdown.Done)
LoopStop ==
    /\ loop = "select"
    /\ stopClosed
    /\ buffer' = bufferClear(buffer)
    /\ log' = emit(log, teardownEvents)
    /\ loop' = "exited"
    /\ UNCHANGED << cfg, phase, phaseMutex, stopClosed, stopPc, pause, flush,
                    target, inflight, sinceFlush, tasks, producer, nextId,
                    dispatched, windowCost, attempt, record >>

\* case <-r.pause, up to time.Sleep(r.pauseTime)
LoopPause ==
    /\ loop = "select"
    /\ pause
    /\ pause' = FALSE
    /\ log' = emit(log, << "pause" >>)
    /\ loop' = "sleep"
    /\ UNCHANGED << cfg, phase, phaseMutex, stopClosed, stopPc, flush, buffer,
                    target, inflight, sinceFlush, tasks, producer, nextId,
                    dispatched, windowCost, attempt, record >>

\* time.Sleep(r.pauseTime) returns
LoopWake ==
    /\ loop = "sleep"
    /\ loop' = "resume"
    /\ UNCHANGED << cfg, phase, phaseMutex, stopClosed, stopPc, pause, flush,
                    buffer, target, inflight, sinceFlush, tasks, producer,
                    nextId, dispatched, windowCost, attempt, record, log >>

\* r.resume(), which needs the phase mutex, and the resume event
LoopResume ==
    /\ loop = "resume"
    /\ phaseMutex = "free"
    /\ phase' = IF phase = batcherPhasePaused THEN batcherPhaseStarted ELSE phase
    /\ log' = emit(log, << "resume" >>)
    /\ loop' = "select"
    /\ UNCHANGED << cfg, phaseMutex, stopClosed, stopPc, pause, flush, buffer,
                    target, inflight, sinceFlush, tasks, producer, nextId,
                    dispatched, windowCost, attempt, record >>

\* (a variant: the audit does not look at the time of the last batch)
auditDueOnEmpty(size, since) == size = 0

\* the condition under which the audit looks at target and inflight
auditDue(size, since) == size = 0 /\ since > MaxOperationTime

\* the event the audit emits
auditEvent(due, tz, iz) ==
    IF ~due THEN "audit-skip"
    ELSE IF ~tz /\ ~iz THEN "audit-fail-target-inflight"
    ELSE IF ~tz THEN "audit-fail-target"
    ELSE IF ~iz THEN "audit-fail-inflight"
    ELSE "audit-pass"

\* case <-auditTimer.C
LoopAudit ==
    /\ loop = "select"
    /\ IF auditDue(Len(buffer), sinceFlush)
       THEN /\ target' = targetAfterConfirm(target)
            /\ inflight' = 0
       ELSE UNCHANGED << target, inflight >>
    /\ log' = emit(log, << auditEvent(auditDue(Len(buffer), sinceFlush),
                                       targetIsZero(target), inflightIsZero(inflight)) >>)
    /\ UNCHANGED << cfg, phase, phaseMutex, stopClosed, stopPc, loop, pause,
                    flush, buffer, sinceFlush, tasks, producer, nextId,
                    dispatched, windowCost, attempt, record >>

\* case <-capacityTimer.C: with a rate limiter, the request event and
\* GiveMe(NeedsCapacity()); nothing of the Batcher changes
LoopCapacity ==
    /\ loop = "select"
    /\ cfg.ratelimiter.attached
    /\ log' = emit(log, << "request" >>)
    /\ UNCHANGED << cfg, phase, phaseMutex, stopClosed, stopPc, loop, pause,
                    flush, buffer, target, inflight, sinceFlush, tasks,
                    producer, nextId, dispatched, windowCost, attempt, record >>

\* case <-flushTimer.C: r.Flush().  A flush interval starts with the tick.
LoopFlushTick ==
    /\ loop = "select"
    /\ flushSent(flush)
    /\ flush' = flushAfterSend(flush)
    /\ windowCost' = 0
    /\ log' = noteCall(log)
    /\ UNCHANGED << cfg, phase, phaseMutex, stopClosed, stopPc, loop, pause,
                    buffer, target, inflight, sinceFlush, tasks, producer,
                    nextId, dispatched, attempt, record >>

\* case <-r.flush: the loop over the buffer, then the residual batches in
\* some order; every non-empty batch goes to processBatch, which stamps
\* lastFlushWithRecords and starts the batch's goroutine
LoopFlush ==
    /\ loop = "select"
    /\ flush
    /\ flush' = FALSE
    /\ LET s == flushLoop(flushStart)
       IN  \E order \in residualOrders(s.batches) :
             LET batches == s.out \o [ i \in DOMAIN order |-> s.batches[order[i]] ]
             IN  /\ buffer' = s.buf
                 /\ inflight' = s.inflight
                 /\ tasks' = tasks \cup { newTask(batches[i], Len(dispatched) + i) :
                                            i \in DOMAIN batches }
                 /\ dispatched' = dispatched \o batches
                 /\ attempt' = attemptsAfter(attempt, Flatten(batches))
                 /\ sinceFlush' = IF batches = << >> THEN sinceFlush ELSE 0
                 /\ windowCost' = IF record
                                  THEN windowCost + SumCost(Flatten(batches))
                                  ELSE windowCost
                 /\ log' = emit(notePass(log),
                                 << "flush-start" >>
                                   \o [ i \in DOMAIN batches |-> "batch" ]
                                   \o << "flush-done" >>)
    /\ UNCHANGED << cfg, phase, phaseMutex, stopClosed, stopPc, loop, pause,
                    target, producer, nextId, record >>

(***************************************************************************)
(* The goroutine of a batch (the go func of processBatch).                 *)
(***************************************************************************)
\* what the goroutine does once its select returns: decrement target; with
\* maxConcurrentBatches = 0 releaseBatchSlot() does nothing and the
\* goroutine is over
taskDone(t) ==
    /\ target' = incTarget(target, - SumCost(t.ops))
    /\ tasks' = IF cfg.maxConcurrentBatches > 0
                THEN (tasks \ { t }) \cup { [ t EXCEPT !.pc = "release" ] }
                ELSE tasks \ { t }
    /\ UNCHANGED << cfg, phase, phaseMutex, stopClosed, stopPc, loop, pause,
                    flush, buffer, inflight, sinceFlush, producer, nextId,
                    dispatched, windowCost, attempt, record, log >>

\* case <-waitForDone: the watcher's ProcessBatch returned
TaskComplete(t) ==
    /\ t.pc = "wait"
    /\ t.left > 0
    /\ taskDone(t)

\* case <-time.After(maxOperationTime)
TaskTimeout(t) ==
    /\ t.pc = "wait"
    /\ t.left = 0
    /\ taskDone(t)

\* releaseBatchSlot() with maxConcurrentBatches > 0: receives from
\* r.inflight, waiting until it holds a record
TaskRelease(t) ==
    /\ t.pc = "release"
    /\ inflight > 0
    /\ inflight' = inflight - 1
    /\ tasks' = tasks \ { t }
    /\ UNCHANGED << cfg, phase, phaseMutex, stopClosed, stopPc, loop, pause,
                    flush, buffer, target, sinceFlush, producer, nextId,
                    dispatched, windowCost, attempt, record, log >>

(***************************************************************************)
(* One quantum of time goes by.                                            *)
(***************************************************************************)
Tick ==
    /\ \/ sinceFlush <= MaxOperationTime
       \/ \E t \in tasks : t.pc = "wait" /\ t.left > 0
    /\ sinceFlush' = IF sinceFlush <= MaxOperationTime THEN sinceFlush + 1
                     ELSE sinceFlush
    /\ tasks' = { IF t.pc = "wait" /\ t.left > 0
                  THEN [ t EXCEPT !.left = @ - 1 ] ELSE t : t \in tasks }
    /\ UNCHANGED << cfg, phase, phaseMutex, stopClosed, stopPc, loop, pause,
                    flush, buffer, target, inflight, producer, nextId,
                    dispatched, windowCost, attempt, record, log >>

Next ==
    \/ EnqueueCall
    \/ EnqueueInsert
    \/ Start
    \/ Pause
    \/ Flush
    \/ \E s \in DOMAIN stopPc : StopBegin(s)
    \/ \E s \in DOMAIN stopPc : StopReturn(s)
    \/ LoopStop
    \/ LoopPause
    \/ LoopWake
    \/ LoopResume
    \/ LoopAudit
    \/ LoopCapacity
    \/ LoopFlushTick
    \/ LoopFlush
    \/ \E t \in tasks : TaskComplete(t)
    \/ \E t \in tasks : TaskTimeout(t)
    \/ \E t \in tasks : TaskRelease(t)
    \/ Tick

Spec == Init /\ [][Next]_vars

(***************************************************************************)
(* The Batcher with a rate limiter, the cost dispatched since the last     *)
(* flush tick being recorded.                                              *)
(***************************************************************************)
WindowConfigs == { c \in Configs : c.ratelimiter.attached }

SpecWindow == InitWith(WindowConfigs, TRUE, {"s1"}) /\ [][Next]_vars

(***************************************************************************)
(* The runs in which Pause() is not called and Stop() at most once, on a   *)
(* buffer that holds every operation enqueued, without a rate limiter or   *)
(* with one that has no capacity.                                          *)
(***************************************************************************)
DispatchConfigs ==
    { c \in Configs : /\ c.maxBufferSize = MaxBuffer
                      /\ c.errorOnFullBuffer
                      /\ flushCapacity(c.ratelimiter) = 0 }

NextDispatch ==
    \/ EnqueueCall
    \/ EnqueueInsert
    \/ Start
    \/ Flush
    \/ \E s \in DOMAIN stopPc : StopBegin(s)
    \/ \E s \in DOMAIN stopPc : StopReturn(s)
    \/ LoopStop
    \/ LoopAudit
    \/ LoopCapacity
    \/ LoopFlushTick
    \/ LoopFlush
    \/ \E t \in tasks : TaskComplete(t)
    \/ \E t \in tasks : TaskTimeout(t)
    \/ \E t \in tasks : TaskRelease(t)
    \/ Tick

SpecDispatch == InitWith(DispatchConfigs, FALSE, {"s1"}) /\ [][NextDispatch]_vars

(***************************************************************************)
(* The runs in which Stop() is not called, on a buffer of one operation    *)
(* that returns BufferFullError when full, and a rate limiter without      *)
(* capacity.  Time goes by, goroutines that can run do run, and the        *)
(* dispatcher's select, which picks at random among the cases that are     *)
(* ready, does not pass over a ticker or a flush request for ever.         *)
(***************************************************************************)
LiveConfigs ==
    { c \in Configs : /\ c.maxBufferSize = 1
                      /\ c.errorOnFullBuffer
                      /\ c.ratelimiter.attached
                      /\ c.ratelimiter.capacity = 0 }

NextLive ==
    \/ EnqueueCall
    \/ EnqueueInsert
    \/ Start
    \/ Pause
    \/ Flush
    \/ LoopPause
    \/ LoopWake
    \/ LoopResume
    \/ LoopAudit
    \/ LoopCapacity
    \/ LoopFlushTick
    \/ LoopFlush
    \/ \E t \in tasks : TaskComplete(t)
    \/ \E t \in tasks : TaskTimeout(t)
    \/ \E t \in tasks : TaskRelease(t)
    \/ Tick

Fairness ==
    /\ WF_vars(EnqueueInsert)
    /\ WF_vars(Tick)
    /\ WF_vars(\E t \in tasks : TaskTimeout(t))
    /\ WF_vars(\E t \in tasks : TaskRelease(t))
    /\ WF_vars(LoopWake)
    /\ WF_vars(LoopResume)
    /\ SF_vars(LoopFlushTick)
    /\ SF_vars(LoopFlush)
    /\ SF_vars(LoopAudit)

LiveSpec == InitWith(LiveConfigs, FALSE, { }) /\ [][NextLive]_vars /\ Fairness

(***************************************************************************)
(* A started Batcher at the moment a flush pass is due: the buffer holds   *)
(* up to MaxPass operations, enqueued in this order, and one batch, of an  *)
(* operation enqueued before them, may be in flight.  From there the       *)
(* dispatcher runs flush passes and the handlers of the batches complete.  *)
(***************************************************************************)
PassConfigs ==
    [ maxBufferSize : { MaxPass },
      ratelimiter : { r \in RateLimiters : flushCapacity(r) = 0 },
      errorOnFullBuffer : { FALSE },
      maxConcurrentBatches : { 0, 1 } ]

\* the operations made of a sequence of kinds, the first one with identity `from'
opsOfKinds(kinds, from) ==
    [ i \in DOMAIN kinds |->
        [ id |-> from + i - 1, cost |-> kinds[i].cost,
          batchable |-> kinds[i].batchable, watcher |-> kinds[i].watcher ] ]

PassBuffers == UNION { [ 1 .. n -> OpKinds ] : n \in 0 .. MaxPass }

InitPassWith(configs, buffers) ==
    /\ cfg \in configs
    /\ record = FALSE
    /\ phase = batcherPhaseStarted
    /\ phaseMutex = "free"
    /\ stopClosed = FALSE
    /\ stopPc = [ s \in { } |-> "idle" ]
    /\ loop = "select"
    /\ pause = FALSE
    /\ flush = TRUE
    /\ \E first \in SUBSET { k \in OpKinds : k.watcher = "A" /\ k.batchable } :
       \E kinds \in buffers :
         LET before == IF first = { } THEN << >>
                       ELSE opsOfKinds(<< CHOOSE k \in first : TRUE >>, 1)
             ops == opsOfKinds(kinds, Len(before) + 1)
         IN  /\ Cardinality(first) <= 1
             /\ \A i \in DOMAIN ops : ~tooExpensive(cfg.ratelimiter, ops[i].cost)
             /\ \A i \in DOMAIN before : ~tooExpensive(cfg.ratelimiter, before[i].cost)
             /\ buffer = ops
             /\ tasks = IF before = << >> THEN { } ELSE { newTask(before, 1) }
             /\ dispatched = IF before = << >> THEN << >> ELSE << before >>
             /\ inflight = IF before = << >> THEN 0
                           ELSE inflightAfterReserve(cfg.maxConcurrentBatches, 0)
             /\ target = SumCost(before) + SumCost(ops)
             /\ sinceFlush = IF before = << >> THEN MaxOperationTime + 1 ELSE 0
             /\ nextId = Len(before) + Len(ops) + 1
             /\ attempt = attemptsAfter([ i \in 1 .. Len(before) + Len(ops) |-> 0 ], before)
    /\ producer = [ pc |-> "idle", op |-> NoOp ]
    /\ windowCost = 0
    /\ log = NoLog

InitPass == InitPassWith(PassConfigs, PassBuffers)

NextPass ==
    \/ Flush
    \/ LoopFlushTick
    \/ LoopFlush
    \/ \E t \in tasks : TaskComplete(t)
    \/ \E t \in tasks : TaskRelease(t)

SpecPass == InitPass /\ [][NextPass]_vars

(***************************************************************************)
(* Flush passes under a rate limiter: as SpecPass, with rate limiters of   *)
(* two capacities (a flush may consume 1 or 2 units before the loop        *)
(* stops) or none, and up to two concurrent batches.                       *)
(***************************************************************************)
SliceLimiters ==
    { NoRateLimiter } \cup
    { [ attached |-> TRUE, capacity |-> c, maxCapacity |-> 30 ] :
        c \in { 10, 20 } }

SliceConfigs ==
    [ maxBufferSize : { MaxSlice },
      ratelimiter : SliceLimiters,
      errorOnFullBuffer : { FALSE },
      maxConcurrentBatches : { 0, 1, 2 } ]

SliceBuffers == UNION { [ 1 .. n -> OpKinds ] : n \in 0 .. MaxSlice }

InitSlice == InitPassWith(SliceConfigs, SliceBuffers)

SpecSlice == InitSlice /\ [][NextPass]_vars

(***************************************************************************)
(* Flush passes that the capacity of the flush cuts short: rate limiters   *)
(* of capacity 20, 290 and 1000 per second, operations of cost 10 and 29   *)
(* for watcher "B" (no MaxBatchSize), no limit on concurrent batches.  The *)
(* buffer holds up to MaxCapacityOps such operations, or, under the rate    *)
(* limiter of capacity 1000, fifty batchable operations of cost 10.        *)
(***************************************************************************)
CapacityLimiters ==
    { [ attached |-> TRUE, capacity |-> c, maxCapacity |-> 1000 ] :
        c \in { 20, 290, 1000 } }

CapacityKinds ==
    { [ cost |-> c, batchable |-> b, watcher |-> "B" ] :
        c \in { 10, 29 }, b \in BOOLEAN }

CapacityBuffers ==
    UNION { [ 1 .. n -> CapacityKinds ] : n \in 0 .. MaxCapacityOps }
    \cup { [ i \in 1 .. 50 |-> [ cost |-> 10, batchable |-> TRUE, watcher |-> "B" ] ] }

CapacityConfigs ==
    [ maxBufferSize : { 50 },
      ratelimiter : CapacityLimiters,
      errorOnFullBuffer : { FALSE },
      maxConcurrentBatches : { 0 } ]

InitCapacity ==
    /\ InitPassWith(CapacityConfigs, CapacityBuffers)
    /\ Len(buffer) > MaxCapacityOps => cfg.ratelimiter.capacity = 1000

NextCapacity ==
    \/ LoopFlushTick
    \/ LoopFlush
    \/ \E t \in tasks : TaskComplete(t)

SpecCapacity == InitCapacity /\ [][NextCapacity]_vars

(***************************************************************************)
(* Flush requests: a Batcher without rate limiter from construction on,    *)
(* with Enqueue(), Start(), callers of Flush() at any time, the flush      *)
(* ticker and the flush passes; the requests made since the last pass are  *)
(* counted, up to MaxCalls.                                                *)
(***************************************************************************)
CoalesceConfigs ==
    [ maxBufferSize : { MaxBuffer },
      ratelimiter : { NoRateLimiter },
      errorOnFullBuffer : { FALSE },
      maxConcurrentBatches : { 0 } ]

InitCoalesce == InitFields(CoalesceConfigs, FALSE, { }) /\ log = CallLog

NextCoalesce ==
    \/ nextId <= MaxOps /\ Len(buffer) < cfg.maxBufferSize /\ EnqueueCall
    \/ EnqueueInsert
    \/ Start
    \/ log.calls < MaxCalls /\ Flush
    \/ log.calls < MaxCalls /\ LoopFlushTick
    \/ LoopFlush
    \/ \E t \in tasks : TaskComplete(t)

SpecCoalesce == InitCoalesce /\ [][NextCoalesce]_vars

(***************************************************************************)
(* The bookkeeping of the batch goroutines: a started Batcher without a    *)
(* rate limiter holding up to MaxBook operations, time going by, handlers  *)
(* that return or run into their timeout, and the audit.                   *)
(***************************************************************************)
BookConfigs ==
    [ maxBufferSize : { MaxBook },
      ratelimiter : { NoRateLimiter },
      errorOnFullBuffer : { FALSE },
      maxConcurrentBatches : { 0, 1 } ]

BookBuffers == UNION { [ 1 .. n -> OpKinds ] : n \in 0 .. MaxBook }

InitBook == InitPassWith(BookConfigs, BookBuffers)

NextBook ==
    \/ LoopFlushTick
    \/ LoopFlush
    \/ LoopAudit
    \/ \E t \in tasks : TaskComplete(t)
    \/ \E t \in tasks : TaskTimeout(t)
    \/ \E t \in tasks : TaskRelease(t)
    \/ Tick

SpecBook == InitBook /\ [][NextBook]_vars

(***************************************************************************)
(* The life of a Batcher without a rate limiter, from construction on,     *)
(* with the history of results and events kept: Start(), Pause(), Flush()  *)
(* and up to MaxLifeOps calls of Enqueue() at any time, two callers of     *)
(* Stop(), also on a Batcher built with NewBatcherWithBuffer(0).           *)
(***************************************************************************)
LifeConfigs ==
    [ maxBufferSize : { 0, 1 },
      ratelimiter : { NoRateLimiter },
      errorOnFullBuffer : { TRUE },
      maxConcurrentBatches : { 0 } ]

NextLife ==
    \/ nextId <= MaxLifeOps /\ EnqueueCall
    \/ EnqueueInsert
    \/ Start
    \/ Pause
    \/ Flush
    \/ \E s \in DOMAIN stopPc : StopBegin(s)
    \/ \E s \in DOMAIN stopPc : StopReturn(s)
    \/ LoopStop
    \/ LoopPause
    \/ LoopWake
    \/ LoopResume
    \/ LoopAudit
    \/ LoopFlushTick
    \/ LoopFlush
    \/ \E t \in tasks : TaskComplete(t)
    \/ \E t \in tasks : TaskTimeout(t)
    \/ Tick

SpecLife == InitLogged(LifeConfigs, Stoppers) /\ [][NextLife]_vars

(***************************************************************************)
(* A Batcher, with or without a rate limiter, whose callers enqueue        *)
(* operations again after they were dispatched; results and events are     *)
(* recorded.  Pause(), Flush() and Stop() are not called, the watchers     *)
(* return before their time is up, and the audit ticker does not deliver.  *)
(***************************************************************************)
RetryConfigs ==
    [ maxBufferSize : { MaxBuffer },
      ratelimiter : { r \in RateLimiters : flushCapacity(r) = 0 },
      errorOnFullBuffer : { TRUE },
      maxConcurrentBatches : { 0 } ]

NextRetry ==
    \/ nextId <= MaxRetryOps /\ EnqueueCall
    \/ EnqueueAgain
    \/ EnqueueInsert
    \/ Start
    \/ LoopFlushTick
    \/ LoopFlush
    \/ \E t \in tasks : TaskComplete(t)

SpecRetry == InitLogged(RetryConfigs, { }) /\ [][NextRetry]_vars

(***************************************************************************)
(* A Batcher with a buffer of one operation and WithErrorOnFullBuffer(),   *)
(* without rate limiter: up to MaxFullOps calls of Enqueue(), Start(), the *)
(* flush and audit tickers, and the batches' goroutines; results and       *)
(* events are recorded.                                                    *)
(***************************************************************************)
FullConfigs ==
    [ maxBufferSize : { 1 },
      ratelimiter : { NoRateLimiter },
      errorOnFullBuffer : { TRUE },
      maxConcurrentBatches : { 0 } ]

NextFull ==
    \/ nextId <= MaxFullOps /\ EnqueueCall
    \/ EnqueueInsert
    \/ Start
    \/ LoopAudit
    \/ LoopFlushTick
    \/ LoopFlush
    \/ \E t \in tasks : TaskComplete(t)
    \/ \E t \in tasks : TaskTimeout(t)
    \/ Tick

SpecFull == InitLogged(FullConfigs, { }) /\ [][NextFull]_vars

(***************************************************************************)
(* As SpecFull, with a limit of one concurrent batch: the audit meets       *)
(* leaked target, a record left in the admission gate, both or none.       *)
(***************************************************************************)
AuditConfigs ==
    [ maxBufferSize : { 1 },
      ratelimiter : { NoRateLimiter },
      errorOnFullBuffer : { TRUE },
      maxConcurrentBatches : { 1 } ]

NextAudit ==
    \/ nextId <= MaxAuditOps /\ EnqueueCall
    \/ EnqueueInsert
    \/ Start
    \/ LoopAudit
    \/ LoopFlushTick
    \/ LoopFlush
    \/ \E t \in tasks : TaskComplete(t)
    \/ \E t \in tasks : TaskTimeout(t)
    \/ \E t \in tasks : TaskRelease(t)
    \/ Tick

SpecAudit == InitLogged(AuditConfigs, { }) /\ [][NextAudit]_vars

(***************************************************************************)
(* Quantities the properties speak of.                                     *)
(***************************************************************************)
RECURSIVE TasksCost(_)
\* the total cost of the batches of a set of goroutines
TasksCost(ts) ==
    IF ts = { } THEN 0
    ELSE LET t == CHOOSE x \in ts : TRUE
         IN  SumCost(t.ops) + TasksCost(ts \ { t })

\* batches given to processBatch whose goroutine has not yet decremented target
Undecremented == { t \in tasks : t.pc = "wait" }

\* batches given to processBatch whose handler has neither returned nor
\* run into the batch's timeout
Outstanding == { t \in tasks : t.pc = "wait" /\ t.left > 0 }

\* no Enqueue call is between incTarget and the buffer (a flush pass is one step)
Quiescent == producer.pc = "idle"

\* the operations given to processBatch so far, in order
DispatchedOps == Flatten(dispatched)

\* the operations accepted so far that the Batcher still knows of
OpsSeen ==
    Range(DispatchedOps) \cup Range(buffer) \cup
        (IF producer.pc = "insert" THEN { producer.op } ELSE { })

SingleConsumer == \A a, b \in OpsSeen : a.watcher = b.watcher

\* the largest cost of an operation
MaxCost == CHOOSE c \in { k.cost : k \in OpKinds } : \A k \in OpKinds : k.cost <= c

\* buffer, target and admission gate are all empty
Quiet == buffer = << >> /\ target = 0 /\ inflight = 0

\* an admission slot is free, or there is no admission gate
SlotFree == tryReserveBatchSlot(cfg.maxConcurrentBatches, inflight)

(***************************************************************************)
(* C1.  I1: in every quiescent state, target is the cost of the buffered   *)
(* operations plus the cost of the batches in flight.                      *)
(***************************************************************************)
C1_TargetIsBufferPlusInflight ==
    Quiescent => target = SumCost(buffer) + TasksCost(Undecremented)

(***************************************************************************)
(* C2.  NeedsCapacity() never under-reports: target is at least the cost   *)
(* of the buffered operations plus the cost of the dispatched batches      *)
(* whose handler has neither completed nor timed out.                      *)
(***************************************************************************)
C2_NeverUnderReports ==
    target >= SumCost(buffer) + TasksCost(Outstanding)

(***************************************************************************)
(* C3.  Target consistency: once the dispatcher runs (and Stop() is not    *)
(* called), the Batcher eventually reaches, and then stays in, a state     *)
(* where the buffer is empty, target is 0 and the admission gate is empty, *)
(* also when a failed buffer insertion left its cost in target.            *)
(***************************************************************************)
C3_EventuallyQuiet == (loop = "select") ~> [] Quiet

\* the dispatcher runs, nothing is buffered, in progress or in flight, an
\* accepted operation never reached a batch (its insertion failed with the
\* buffer full), and target is 0 all the same
C3_LeakHealed ==
    /\ loop = "select"
    /\ Quiet
    /\ tasks = { }
    /\ producer.pc = "idle"
    /\ Len(DispatchedOps) < nextId - 1

(***************************************************************************)
(* C4.  At-most-once dispatch: no operation is in two dispatched batches,  *)
(* or twice in one.                                                        *)
(***************************************************************************)
C4_AtMostOnce ==
    \A i, j \in DOMAIN DispatchedOps :
        DispatchedOps[i].id = DispatchedOps[j].id => i = j

\* a batch that reached its watcher's MaxBatchSize was dispatched from
\* inside the loop, and the dispatcher has since been stopped
C4_FullBatchDispatched ==
    /\ \E i \in DOMAIN dispatched : Len(dispatched[i]) >= 2
    /\ loop = "exited"

(***************************************************************************)
(* C5.  Admission bound: with maxConcurrentBatches > 0, the batches whose  *)
(* handler has neither completed nor timed out never number more than      *)
(* maxConcurrentBatches.                                                   *)
(***************************************************************************)
C5_AdmissionBound ==
    cfg.maxConcurrentBatches > 0
        => Cardinality(Outstanding) <= cfg.maxConcurrentBatches

(***************************************************************************)
(* C6.  Stop() returns: a Stop() call that waits in shutdown.Wait() is     *)
(* never stuck, that is, the dispatcher it waits for, or the call itself,  *)
(* can always take a step.                                                 *)
(***************************************************************************)
LoopStep ==
    \/ LoopStop
    \/ LoopPause
    \/ LoopWake
    \/ LoopResume

C6_StopReturns ==
    \A s \in DOMAIN stopPc :
        stopPc[s] = "waiting" => ENABLED (LoopStep \/ StopReturn(s))

(***************************************************************************)
(* C7.  Per-interval capacity bound: with a rate limiter of capacity C,    *)
(* the cost dispatched since the flush ticker last delivered is at most    *)
(* floor(C * flushInterval / 1 s) plus the largest cost of an operation.   *)
(***************************************************************************)
C7_WindowBound ==
    cfg.ratelimiter.attached
        => windowCost <= flushCapacity(cfg.ratelimiter) + MaxCost

C9_NoDispatchWhilePaused ==
    [][phase = batcherPhasePaused => dispatched' = dispatched]_vars

(***************************************************************************)
(* C10.  FIFO within a consumer, as claimed: with one consumer and no      *)
(* admission gate, operations are dispatched in the order in which they    *)
(* were enqueued.                                                          *)
(***************************************************************************)
C10_Fifo ==
    (cfg.maxConcurrentBatches = 0 /\ SingleConsumer)
        => \A i, j \in DOMAIN DispatchedOps :
               i < j => DispatchedOps[i].id < DispatchedOps[j].id

(***************************************************************************)
(* C10, amended.  With one consumer and no admission gate, an operation is *)
(* dispatched before one enqueued earlier only when it is non-batchable    *)
(* and the earlier one is batchable; batchable operations among            *)
(* themselves, non-batchable operations among themselves, and the          *)
(* operations of a batch are dispatched in enqueue order.                  *)
(***************************************************************************)
C10_FifoPerKind ==
    (cfg.maxConcurrentBatches = 0 /\ SingleConsumer)
        => \A i, j \in DOMAIN DispatchedOps :
               (i < j /\ DispatchedOps[i].id > DispatchedOps[j].id)
                   => (~DispatchedOps[i].batchable /\ DispatchedOps[j].batchable)

\* one consumer, no admission gate, and a batch of two operations was
\* dispatched
C10_BatchOfOneConsumer ==
    /\ cfg.maxConcurrentBatches = 0
    /\ SingleConsumer
    /\ \E i \in DOMAIN dispatched : Len(dispatched[i]) >= 2

(***************************************************************************)
(* C11.  Ordering across consumers, as claimed: without an admission gate, *)
(* if x was enqueued before y for another consumer, the batch that holds y *)
(* is not dispatched before the batch that holds x.                        *)
(***************************************************************************)
C11_OrderAcrossConsumers ==
    cfg.maxConcurrentBatches = 0
        => \A i, j \in DOMAIN dispatched :
               i < j => \A y \in Range(dispatched[i]), x \in Range(dispatched[j]) :
                           x.watcher # y.watcher => y.id < x.id

(***************************************************************************)
(* C11, amended.  Without an admission gate, an operation that is          *)
(* dispatched after one enqueued later is batchable (a non-batchable       *)
(* operation is never overtaken), and the operation that overtook it is    *)
(* non-batchable or of another consumer.                                   *)
(***************************************************************************)
C11_OnlyBatchableOvertaken ==
    cfg.maxConcurrentBatches = 0
        => \A i, j \in DOMAIN DispatchedOps :
               (i < j /\ DispatchedOps[i].id > DispatchedOps[j].id)
                   => /\ DispatchedOps[j].batchable
                      /\ \/ ~DispatchedOps[i].batchable
                         \/ DispatchedOps[i].watcher # DispatchedOps[j].watcher

\* no admission gate, and a batchable operation of one consumer was
\* dispatched before a batchable operation of another consumer that was
\* enqueued earlier
C11_BatchOvertakenAcrossConsumers ==
    /\ cfg.maxConcurrentBatches = 0
    /\ \E i, j \in DOMAIN DispatchedOps :
          /\ i < j
          /\ DispatchedOps[i].id > DispatchedOps[j].id
          /\ DispatchedOps[i].batchable
          /\ DispatchedOps[j].batchable
          /\ DispatchedOps[i].watcher # DispatchedOps[j].watcher


batchableOf(ops, w) == SelectSeq(ops, LAMBDA o : o.watcher = w /\ o.batchable)

\* the batches of batchable operations of consumer w among those dispatched
\* after the first n
batchesOf(all, n, w) ==
    SelectSeq(SubSeq(all, n + 1, Len(all)),
              LAMBDA b : b[1].watcher = w /\ b[1].batchable)

\* Claim C20: within one flush pass, without a rate limiter and with
\* admission available, the k batchable operations of a consumer whose max
\* batch size is m > 0 leave as k div m batches of exactly m operations
\* followed by one batch of k mod m operations when that is not zero, in
\* enqueue order; and no batch dispatched for that consumer ever holds
\* more than m operations.
C20_CutAtMaxBatchSize ==
    [][ /\ \A j \in DOMAIN dispatched' :
             LET m == WatcherMaxBatchSize(dispatched'[j][1].watcher)
             IN  m > 0 => Len(dispatched'[j]) <= m
        /\ ( LoopFlush /\ ~cfg.ratelimiter.attached /\ cfg.maxConcurrentBatches = 0 )
             => \A w \in Watchers :
                  LET m == WatcherMaxBatchSize(w)
                      mine == batchableOf(buffer, w)
                      k == Len(mine)
                      bs == batchesOf(dispatched', Len(dispatched), w)
                  IN  m > 0 =>
                        /\ Len(bs) = (k \div m) + (IF k % m > 0 THEN 1 ELSE 0)
                        /\ \A i \in 1 .. (k \div m) : Len(bs[i]) = m
                        /\ k % m > 0 => Len(bs[Len(bs)]) = k % m
                        /\ Flatten(bs) = mine ]_vars

\* Witness for C20: a pass without limits has cut three batchable
\* operations of A (max batch size 2) into a batch of two and then a batch
\* of one.
C20_FullThenRemainder ==
    /\ ~cfg.ratelimiter.attached
    /\ cfg.maxConcurrentBatches = 0
    /\ buffer = << >>
    /\ \E i, j \in DOMAIN dispatched :
          /\ i < j
          /\ Len(dispatched[i]) = WatcherMaxBatchSize("A")
          /\ Len(dispatched[j]) = 1
          /\ \A o \in Range(dispatched[i]) \cup Range(dispatched[j]) :
                o.watcher = "A" /\ o.batchable
          /\ dispatched[j][1].id > dispatched[i][2].id
          /\ Len(batchesOf(dispatched, 0, "A")) = 2

\* Claim C13 as the specification states it: the phase changes only from
\* Uninitialized to Started, from Started to Paused, from Paused to
\* Started, and from Started or Paused to Stopped.
C13_OnlyListedTransitions ==
    [][ phase' # phase =>
          \/ phase = batcherPhaseUninitialized /\ phase' = batcherPhaseStarted
          \/ phase = batcherPhaseStarted /\ phase' = batcherPhasePaused
          \/ phase = batcherPhasePaused /\ phase' = batcherPhaseStarted
          \/ /\ phase \in { batcherPhaseStarted, batcherPhasePaused }
             /\ phase' = batcherPhaseStopped ]_vars

\* Claim C13, amended: the phase changes only from Uninitialized to Started
\* (by Start), from Started to Paused (by Pause), from Paused to Started
\* (by the dispatcher's resume) and from any phase but Stopped, the
\* Uninitialized one included, to Stopped (by Stop); every other call
\* leaves the phase as it is, and Stopped is never left.
C13_PhaseTransitions ==
    [][ phase' # phase =>
          \/ /\ phase = batcherPhaseUninitialized
             /\ phase' = batcherPhaseStarted
             /\ Start
          \/ /\ phase = batcherPhaseStarted
             /\ phase' = batcherPhasePaused
             /\ Pause
          \/ /\ phase = batcherPhasePaused
             /\ phase' = batcherPhaseStarted
             /\ LoopResume
          \/ /\ phase # batcherPhaseStopped
             /\ phase' = batcherPhaseStopped
             /\ \E s \in DOMAIN stopPc : StopReturn(s) ]_vars

\* Witness for C13: Stop() has returned on a Batcher that was never
\* started, the phase is Stopped, and a Start() after it was refused.
C13_StoppedBeforeStart ==
    /\ phase = batcherPhaseStopped
    /\ log.loops = 0
    /\ log.start = "BatcherImproperOrderError"
    /\ \E s \in DOMAIN stopPc : stopPc[s] = "returned"

\* Claim C14: Start() succeeds only in phase Uninitialized with a buffer of
\* capacity greater than 0, and then starts the dispatcher and sets the
\* phase to Started; otherwise it returns BatcherImproperOrderError (phase
\* not Uninitialized) or BufferNotAllocated (capacity 0), leaves the phase
\* unchanged and starts no dispatcher.  At most one dispatcher is ever
\* started, whatever the number of Start() calls, also after Stop().
C14_StartOneShot ==
    [][ /\ log'.loops <= 1
        /\ Start =>
              IF phase = batcherPhaseUninitialized /\ cfg.maxBufferSize > 0
              THEN /\ log'.start = "nil"
                   /\ phase' = batcherPhaseStarted
                   /\ loop = "none" /\ loop' = "select"
                   /\ log'.loops = log.loops + 1
              ELSE /\ log'.start = IF phase # batcherPhaseUninitialized
                                   THEN "BatcherImproperOrderError"
                                   ELSE "BufferNotAllocated"
                   /\ phase' = phase
                   /\ loop' = loop
                   /\ log'.loops = log.loops ]_vars

\* Witness for C14: a Start() was refused with BatcherImproperOrderError
\* after both callers of Stop() returned on a Batcher whose dispatcher had
\* been started once.
C14_RefusedAfterStop ==
    /\ log.loops = 1
    /\ log.start = "BatcherImproperOrderError"
    /\ phase = batcherPhaseStopped
    /\ loop = "exited"
    /\ \A s \in DOMAIN stopPc : stopPc[s] = "returned"

EnqueueArgs ==
    FreshArgs \cup
    { [ present |-> TRUE, consumer |-> TRUE, id |-> op.id, cost |-> op.cost,
        batchable |-> op.batchable, watcher |-> op.watcher ] :
      op \in Range(DispatchedOps) }

\* the number of batches dispatched that hold the operation of identity id
DispatchCount(id) ==
    Cardinality({ j \in DOMAIN dispatched :
                    \E i \in DOMAIN dispatched[j] : dispatched[j][i].id = id })

\* Claim C17: Enqueue checks, in this order, that the operation is
\* present (NoOperationError), that it has a watcher (NoWatcherError),
\* that with a rate limiter its cost is at most MaxCapacity()
\* (TooExpensiveError), and that with MaxAttempts() > 0 its attempts are
\* below it (TooManyAttemptsError); the first check that fails decides the
\* error, a rejected call changes neither target nor the buffer, and a call
\* that passes all four raises target by the cost.  Without rate limiter
\* no cost is rejected; with MaxAttempts() = 0 no attempt count is.
C17_PreconditionOrder ==
    [][ \A a \in EnqueueArgs :
          enqueue(a) =>
            LET limit == WatcherMaxAttempts(a.watcher)
                want == IF ~a.present THEN "NoOperationError"
                        ELSE IF ~a.consumer THEN "NoWatcherError"
                        ELSE IF /\ cfg.ratelimiter.attached
                                /\ a.cost > cfg.ratelimiter.maxCapacity
                             THEN "TooExpensiveError"
                        ELSE IF limit > 0 /\ attemptOf(a) >= limit
                             THEN "TooManyAttemptsError"
                        ELSE "nil"
            IN  IF want = "nil"
                THEN /\ producer'.pc = "insert"
                     /\ producer'.op.id = a.id
                     /\ target' = target + a.cost
                     /\ buffer' = buffer
                ELSE /\ log'.enq = want
                     /\ target' = target
                     /\ buffer' = buffer
                     /\ producer' = producer ]_vars

\* Witness for C17: with a rate limiter attached, the last Enqueue call was
\* rejected as too expensive, and target and buffer are as they were
\* after construction.
C17_RejectedTooExpensive ==
    /\ cfg.ratelimiter.attached
    /\ log.enq = "TooExpensiveError"
    /\ target = 0
    /\ buffer = << >>
    /\ nextId = 1

Excess ==
    target - ( SumCost(buffer)
               + ( IF producer.pc = "insert" THEN producer.op.cost ELSE 0 )
               + TasksCost(Undecremented) )

\* Claim C16: Enqueue on a full buffer with errorOnFullBuffer returns
\* BufferFullError and leaves the buffer as it was, while target keeps the
\* cost that incTarget added before the insertion; what target holds
\* beyond the outstanding cost only ever goes down in an audit that sets
\* target to 0.
C16_FullBufferLeak ==
    [][ /\ ( /\ EnqueueInsert
              /\ cfg.errorOnFullBuffer
              /\ Len(buffer) >= cfg.maxBufferSize )
             => /\ log'.enq = "BufferFullError"
                /\ buffer' = buffer
                /\ target' = target
                /\ Excess' = Excess + producer.op.cost
        /\ Excess' < Excess => ( LoopAudit /\ target' = 0 /\ buffer = << >> )
      ]_vars

\* Witness for C16: the second Enqueue returned BufferFullError, the first
\* operation was dispatched and its batch is over, and an audit has found
\* the cost of the second in target and set target to 0.
C16_LeakAudited ==
    /\ log.full
    /\ log.enq = "BufferFullError"
    /\ log.last = "audit-fail-target"
    /\ target = 0
    /\ nextId = 3
    /\ producer.pc = "idle"
    /\ Len(DispatchedOps) = 1
    /\ tasks = { }
    /\ buffer = << >>

\* Claim C19: as long as no Enqueue call has returned BufferFullError, the
\* audit emits AuditPassEvent or AuditSkipEvent and never an
\* AuditFailEvent, whatever the interleaving of Enqueue calls, flush
\* passes, audit ticks and batch completions or timeouts, and whatever
\* the watchers' MaxOperationTime().
C19_AuditsNeverFail ==
    [][ ( LoopAudit /\ ~log.full )
          => log'.last \in { "audit-pass", "audit-skip" } ]_vars

\* the goroutines of batch n, in a set of tasks
TasksOf(ts, n) == { t \in ts : t.n = n }

\* Claim C21: every dispatched batch has one goroutine; it starts at its
\* select with the timer set to the watcher's MaxOperationTime() if that is
\* above 0 and to the Batcher's otherwise, and the dispatch itself changes
\* no target.  The goroutine leaves the select only when the handler has
\* returned or the timer has run out, and at that step target goes down by
\* the sum of the costs of the batch (incTarget: to 0 if it is already
\* lower) and the gate is left alone; with maxConcurrentBatches > 0 it then
\* takes one record out of the gate and is over.  A batch whose goroutine
\* is past the select, or over, never decrements or releases again: target
\* goes down only by the step of one goroutine leaving its select or by the
\* audit, the gate only by one goroutine's release or by the audit.
C21_DecrementOnceReleaseOnce ==
    [][ /\ \A n \in 1 .. Len(dispatched') : Cardinality(TasksOf(tasks', n)) <= 1
        /\ \A t \in tasks' :
             t.n > Len(dispatched)
               => /\ LoopFlush
                  /\ target' = target
                  /\ t.pc = "wait"
                  /\ t.ops = dispatched'[t.n]
                  /\ LET w == t.ops[1].watcher
                     IN  t.left = IF WatcherMaxOperationTime(w) > 0
                                  THEN WatcherMaxOperationTime(w)
                                  ELSE MaxOperationTime
        /\ \A n \in 1 .. Len(dispatched) :
             TasksOf(tasks, n) = { } => TasksOf(tasks', n) = { }
        /\ \A t \in tasks :
             LET after == TasksOf(tasks', t.n)
                 sum == SumCost(t.ops)
             IN  /\ ( t.pc = "wait" /\ \A u \in after : u.pc # "wait" )
                       => /\ TaskComplete(t) \/ t.left = 0
                          /\ target' = IF target >= sum THEN target - sum ELSE 0
                          /\ inflight' = inflight
                          /\ after = IF cfg.maxConcurrentBatches > 0
                                     THEN { [ t EXCEPT !.pc = "release" ] }
                                     ELSE { }
                          /\ \A u \in tasks \ { t } : u \in tasks'
                 /\ t.pc = "release"
                       => \/ after = { t }
                          \/ /\ after = { }
                             /\ inflight' = inflight - 1
                             /\ target' = target
                             /\ \A u \in tasks \ { t } : u \in tasks'
        /\ target' < target
             => \/ LoopAudit
                \/ \E t \in tasks : /\ t.pc = "wait"
                                     /\ \A u \in TasksOf(tasks', t.n) : u.pc # "wait"
        /\ inflight' < inflight
             => \/ LoopAudit
                \/ \E t \in tasks : t.pc = "release" /\ TasksOf(tasks', t.n) = { }
      ]_vars

\* Witness for C21: with maxConcurrentBatches = 1, the handler of a batch of
\* watcher B ("B" has its own MaxOperationTime) has not returned within the
\* timeout: the goroutine has decremented target and is about to release
\* the record the batch holds in the gate, with another operation waiting
\* in the buffer for that record.
C21_TimedOutBeforeRelease ==
    /\ cfg.maxConcurrentBatches = 1
    /\ inflight = 1
    /\ \E t \in tasks : /\ tasks = { t }
                         /\ t.pc = "release"
                         /\ t.left = 0
                         /\ t.ops[1].watcher = "B"
    /\ Len(buffer) = 1
    /\ target = SumCost(buffer)

\* the operations of a sequence that are not in another one
opsNotIn(ops, rest) == SelectSeq(ops, LAMBDA o : o \notin Range(rest))

\* the number of batches that a sequence of operations taken by one pass
\* makes: one per non-batchable operation and, per watcher, one per
\* MaxBatchSize() batchable operations begun (one in all without a limit)
batchesBegun(ops) ==
    LET single == Len(SelectSeq(ops, LAMBDA o : ~o.batchable))
        begun(w) ==
            LET k == Len(batchableOf(ops, w))
                m == WatcherMaxBatchSize(w)
            IN  IF m > 0 THEN (k + m - 1) \div m
                ELSE IF k > 0 THEN 1 ELSE 0
    IN  single + begun("A") + begun("B")

\* Claim C22: with maxConcurrentBatches > 0, a flush pass leaves in the
\* admission gate one more record per batch it has given to processBatch,
\* and every such batch holds an operation.  The number of records taken is
\* the number of batches the operations taken from the buffer begin: one per
\* non-batchable operation, one per first operation of a watcher's pending
\* batch (later operations of that batch take none) and one more for each
\* batch begun after a batch of MaxBatchSize() operations has gone out;
\* this also when the pass stops on the capacity check.  The gate never
\* holds more than maxConcurrentBatches records.
C22_OneReservationPerBatch ==
    [][ ( LoopFlush /\ cfg.maxConcurrentBatches > 0 )
          => LET taken == opsNotIn(buffer, buffer')
                 new == Len(dispatched') - Len(dispatched)
             IN  /\ inflight' - inflight = new
                 /\ new = batchesBegun(taken)
                 /\ \A i \in Len(dispatched) + 1 .. Len(dispatched') :
                      dispatched'[i] # << >>
                 /\ inflight' <= cfg.maxConcurrentBatches
      ]_vars

\* Witness for C22: maxConcurrentBatches = 2, a flush may consume 2 units;
\* of three batchable operations of watcher "A" (MaxBatchSize 2, cost 1)
\* the first two went out as a full batch, the third began a new batch and
\* took the second record, the pass stopped on the capacity check
\* (consumed = 3) with that batch pending, and the batch of the third
\* alone was dispatched.
C22_NewSlotAfterInline ==
    /\ cfg.maxConcurrentBatches = 2
    /\ flushCapacity(cfg.ratelimiter) = 2
    /\ inflight = 2
    /\ Len(dispatched) = 2
    /\ Len(dispatched[1]) = 2
    /\ Len(dispatched[2]) = 1
    /\ \A i \in 1 .. 2 : dispatched[i][1].watcher = "A" /\ dispatched[i][1].batchable
    /\ Cardinality(tasks) = 2
    /\ buffer = << >>

\* Claim C23: the audit tick looks at target and at the admission gate only
\* when the buffer is empty and more than maxOperationTime has gone by
\* since the last non-empty batch was given to processBatch; otherwise it
\* emits AuditSkipEvent and changes neither.  When it looks, the event is
\* AuditFailEvent for target and inflight, for target, for inflight, or
\* AuditPassEvent, according to which of the two was not zero, and after
\* the tick target is 0 and the gate is empty.  Target left behind by an
\* Enqueue that returned BufferFullError is reported as a failure on
\* target (alone or together with inflight), and NeedsCapacity() is 0
\* after it.
C23_AuditTick ==
    [][ LoopAudit
          => LET due == buffer = << >> /\ sinceFlush > MaxOperationTime
             IN  /\ ~due => /\ log'.last = "audit-skip"
                            /\ target' = target
                            /\ inflight' = inflight
                 /\ due => /\ target' = 0
                           /\ inflight' = 0
                           /\ ( target > 0 /\ inflight > 0 )
                                <=> log'.last = "audit-fail-target-inflight"
                           /\ ( target > 0 /\ inflight = 0 )
                                <=> log'.last = "audit-fail-target"
                           /\ ( target = 0 /\ inflight > 0 )
                                <=> log'.last = "audit-fail-inflight"
                           /\ ( target = 0 /\ inflight = 0 )
                                <=> log'.last = "audit-pass"
                 /\ ( due /\ Excess > 0 )
                      => /\ log'.last \in { "audit-fail-target",
                                            "audit-fail-target-inflight" }
                         /\ target' = 0
      ]_vars

\* Witness for C23: with maxConcurrentBatches = 1, the second Enqueue found
\* the buffer full and left its cost in target; the first operation was
\* dispatched to watcher "B", whose handler is still running within its
\* own MaxOperationTime(); the audit, more than maxOperationTime after
\* that batch, found target and the gate both above zero, reported both
\* and set both to zero.
C23_LeakAndSlotAudited ==
    /\ log.full
    /\ log.last = "audit-fail-target-inflight"
    /\ target = 0
    /\ inflight = 0
    /\ buffer = << >>
    /\ producer.pc = "idle"
    /\ nextId = 3
    /\ \E t \in tasks : tasks = { t } /\ t.pc = "wait" /\ t.left > 0

\* the length of the shortest prefix of ops whose costs add up to more than
\* limit, and the length of ops if there is none
shortestPrefixAbove(ops, limit) ==
    LET above == { j \in 0 .. Len(ops) : SumCost(SubSeq(ops, 1, j)) > limit }
    IN  IF above = { } THEN Len(ops)
        ELSE CHOOSE j \in above : \A i \in above : j <= i

\* Claim C24: in a flush pass with a rate limiter and admission available,
\* with S the integer part of Capacity() * flushInterval (ms) / 1000, the
\* operations given to processBatch are those of the shortest prefix of
\* the buffer whose costs add up to more than S (the whole buffer if they
\* never do), and the others stay in the buffer in their order.  (With
\* capacity 1000, 100 ms and fifty batchable operations of cost 10 for a
\* watcher without MaxBatchSize: one batch of 11, 39 left.)
C24_SliceByFloor ==
    [][ ( LoopFlush /\ cfg.ratelimiter.attached /\ cfg.maxConcurrentBatches = 0 )
          => LET S == (cfg.ratelimiter.capacity * FlushIntervalMs) \div 1000
                 n == shortestPrefixAbove(buffer, S)
                 out == Flatten(SubSeq(dispatched', Len(dispatched) + 1,
                                       Len(dispatched')))
             IN  /\ buffer' = SubSeq(buffer, n + 1, Len(buffer))
                 /\ Len(out) = n
                 /\ Range(out) = Range(SubSeq(buffer, 1, n))
      ]_vars

\* Claim C25: a flush pass loses no operation.  The buffer after the pass
\* is the buffer before it without the operations taken, in the same
\* order; every operation taken is, at the end of the pass, in exactly one
\* of the batches the pass gave to processBatch, each of which holds one or
\* more operations of a single watcher (and, if batchable, in the order
\* they had in the buffer); this also when the pass stops on the capacity
\* check or skips operations for lack of a record in the admission gate.
\* A pass never changes target; a pass that dispatches no batch (all its
\* residual entries empty) starts no goroutine and changes neither
\* lastFlushWithRecords nor the admission gate.
C25_NoOperationLost ==
    [][ LoopFlush
          => LET new == SubSeq(dispatched', Len(dispatched) + 1, Len(dispatched'))
                 out == Flatten(new)
             IN  /\ buffer' = SelectSeq(buffer, LAMBDA o : o \in Range(buffer'))
                 /\ Range(out) = Range(buffer) \ Range(buffer')
                 /\ Len(out) = Len(buffer) - Len(buffer')
                 /\ \A i \in DOMAIN new :
                      /\ new[i] # << >>
                      /\ \A j \in DOMAIN new[i] : new[i][j].watcher = new[i][1].watcher
                      /\ new[i] = SelectSeq(buffer, LAMBDA o : o \in Range(new[i]))
                 /\ Cardinality(tasks') = Cardinality(tasks) + Len(new)
                 /\ target' = target
                 /\ sinceFlush' = IF new = << >> THEN sinceFlush ELSE 0
                 /\ new = << >> => inflight' = inflight /\ tasks' = tasks
      ]_vars

\* Witness for C25: maxConcurrentBatches = 1 and a flush may consume one
\* unit.  Of the three operations in the buffer the first (batchable, for
\* "A") took the record of the gate, the second (for "B") was skipped for
\* lack of a record, the third joined the first and the full batch went
\* out inside the loop, which then stopped on the capacity check; the
\* entry left for "A" was empty and dispatched nothing.  The operation of
\* "B" is all the buffer holds.
C25_SkippedStaysTakenDispatched ==
    /\ cfg.maxConcurrentBatches = 1
    /\ cfg.ratelimiter.attached
    /\ flushCapacity(cfg.ratelimiter) = 1
    /\ Len(dispatched) = 1
    /\ Len(dispatched[1]) = 2
    /\ dispatched[1][1].id = 1 /\ dispatched[1][2].id = 3
    /\ dispatched[1][1].watcher = "A"
    /\ Len(buffer) = 1
    /\ buffer[1].id = 2 /\ buffer[1].watcher = "B"
    /\ inflight = 1
    /\ sinceFlush = 0
    /\ Cardinality(tasks) = 1

\* Claim C26: Flush() and the flush tick never wait: each leaves one
\* request pending in r.flush, whatever was there.  A request is pending
\* exactly when a Flush() call or flush tick has happened since the last
\* flush pass began; a flush pass begins only on a pending request and
\* takes it, so that all the calls and ticks made since the previous pass,
\* however many, are served by that one pass.  A Flush() call or flush
\* tick that finds a request pending changes nothing of the Batcher:
\* calling Flush() twice without a pass in between leaves it as calling
\* it once does.
C26_RequestsCoalesce ==
    /\ [] ( flush <=> log.calls >= 1 )
    /\ [] ( ENABLED Flush )
    /\ [] ( loop = "select" => ENABLED LoopFlushTick )
    /\ [][ /\ LoopFlush => ( flush /\ ~flush' /\ log.calls >= 1
                               /\ log'.calls = 0 /\ log'.served = log.calls )
           /\ ( Flush \/ LoopFlushTick )
                => /\ flush'
                   /\ log'.calls = log.calls + 1
                   /\ flush => UNCHANGED << cfg, phase, phaseMutex, stopClosed,
                                            stopPc, loop, pause, flush, buffer,
                                            target, inflight, sinceFlush, tasks,
                                            producer, nextId, dispatched,
                                            windowCost, attempt, record >>
           /\ log'.calls > log.calls => ( Flush \/ LoopFlushTick )
           /\ ( flush /\ ~flush' ) => LoopFlush
         ]_vars

\* Witness for C26: MaxCalls calls of Flush() and flush ticks were made
\* before one flush pass, which served them all and dispatched the two
\* operations of the buffer; no request is pending and nothing is left to
\* flush.
C26_ThreeCallsOnePass ==
    /\ log.served = MaxCalls
    /\ log.calls = 0
    /\ ~flush
    /\ loop = "select"
    /\ Len(dispatched) >= 1
    /\ Len(DispatchedOps) = 2
    /\ buffer = << >>
====
